---- MODULE Spec2Model ----
(***************************************************************************)
(* Model of the NEAR contract UniversityRegistry (src/src/lib.rs).         *)
(*                                                                         *)
(* The contract keeps two persistent UnorderedMaps.  An UnorderedMap is    *)
(* modelled as the sequence of its (key, value) entries in enumeration     *)
(* order: get looks a key up, insert replaces the value of a present key   *)
(* and appends an entry for an absent one, to_vec enumerates the entries.  *)
(* Strings are TLA+ strings, "" is the empty text.  Option<T> is a         *)
(* sequence of length 0 (None) or 1 (Some).                                *)
(*                                                                         *)
(* The host runs one call to completion before the next one starts, and    *)
(* discards the writes of a call that panics.                              *)
(***************************************************************************)
EXTENDS Integers, Sequences, FiniteSets, TLC

\* ------------------------------------------------------------------ bounds
MaxCalls == 4

\* Points of add_university's body at which the host may abort the call
\* (a fault below the contract: gas, storage), once both checks have passed.
FaultPoints == {"before_writes", "between_writes", "after_writes"}

\* ------------------------------------------------------------------ inputs
Names      == {"", "UMA", "UPM"}
AccountIds == {"", "uni_id", "admin"}
Signers    == {"admin", "user"}

\* env::current_account_id(): the account the contract is deployed on.
CurrentAccountId == "admin"

VARIABLES
    universities_accounts,   \* UnorderedMap<String, University>
    universities_by_name,    \* UnorderedMap<String, Vec<University>>
    history,                 \* ghost: the Universities of the calls that returned, in call order
    last,                    \* ghost: the last call, its arguments and its outcome
                             \* (again: a view call whose query was already in seen,
                             \*  an add_university whose request was already in failed)
    seen,                    \* ghost: per query, the answer given since the last committed registration
    failed,                  \* ghost: the last add_university request that got an error since then
    ncalls                   \* ghost: number of calls made so far

vars == <<universities_accounts, universities_by_name, history, last, seen, failed, ncalls>>

\* ------------------------------------------------------------ data model
University(name, account_id) == [name |-> name, account_id |-> account_id]

None == <<>>
Some(v) == <<v>>

\* ---------------------------------------------------------- UnorderedMap
MapNew == <<>>

MapIndex(m, k) ==
    IF \E i \in 1..Len(m) : m[i].key = k
    THEN CHOOSE i \in 1..Len(m) : m[i].key = k
    ELSE 0

MapGet(m, k) ==
    IF MapIndex(m, k) = 0 THEN None ELSE Some(m[MapIndex(m, k)].value)

MapInsert(m, k, v) ==
    IF MapIndex(m, k) = 0
    THEN Append(m, [key |-> k, value |-> v])
    ELSE [m EXCEPT ![MapIndex(m, k)] = [key |-> k, value |-> v]]

MapToVec(m) == [i \in 1..Len(m) |-> <<m[i].key, m[i].value>>]

MapKeys(m) == {m[i].key : i \in 1..Len(m)}

\* ------------------------------------------------------------- contract
\* Variants of add_university_by_name with a slip in one branch.
add_university_by_name_Overwrite(by_name, university) ==
    MapInsert(by_name, university.name, <<university>>)

add_university_by_name_PushFront(by_name, university) ==
    IF MapGet(by_name, university.name) = None
    THEN MapInsert(by_name, university.name, <<university>>)
    ELSE MapInsert(by_name, university.name,
                   <<university>> \o MapGet(by_name, university.name)[1])

add_university_by_name_NoNewKey(by_name, university) ==
    IF MapGet(by_name, university.name) = None
    THEN by_name
    ELSE MapInsert(by_name, university.name,
                   Append(MapGet(by_name, university.name)[1], university))

add_university_by_name_KeyByAccount(by_name, university) ==
    IF MapGet(by_name, university.account_id) = None
    THEN MapInsert(by_name, university.account_id, <<university>>)
    ELSE MapInsert(by_name, university.account_id,
                   Append(MapGet(by_name, university.account_id)[1], university))

add_university_by_name_EmptyNew(by_name, university) ==
    IF MapGet(by_name, university.name) = None
    THEN MapInsert(by_name, university.name, <<>>)
    ELSE MapInsert(by_name, university.name,
                   Append(MapGet(by_name, university.name)[1], university))

\* fn add_university_by_name(&mut self, university)
add_university_by_name(by_name, university) ==
    IF MapGet(by_name, university.name) = None
    THEN MapInsert(by_name, university.name, <<university>>)
    ELSE MapInsert(by_name, university.name,
                   Append(MapGet(by_name, university.name)[1], university))

\* Variants of the two checks: a comparison inverted, a check left out.
PermissionOk_Inverted(signer) == signer # CurrentAccountId

PermissionOk_AnySigner(signer) == TRUE

AccountIsNew_NoCheck(accounts, account_id) == TRUE

AccountIsNew_FirstOnly(accounts, account_id) ==
    accounts = <<>> \/ accounts[1].key # account_id

\* The two require! checks of add_university, in source order.
PermissionOk(signer) == signer = CurrentAccountId

AccountIsNew(accounts, account_id) == MapGet(accounts, account_id) = None

\* Variant of add_university that writes universities_by_name first.
add_university_NameFirst(accounts, by_name, signer, name, account_id, fault) ==
    IF ~PermissionOk(signer)
    THEN [status |-> "Permission denied", result |-> <<>>,
          accounts |-> accounts, by_name |-> by_name]
    ELSE IF ~AccountIsNew(accounts, account_id)
    THEN [status |-> "Account already exists", result |-> <<>>,
          accounts |-> accounts, by_name |-> by_name]
    ELSE LET university == University(name, account_id) IN
         [status |-> IF fault = "none" THEN "ok" ELSE "aborted",
          result |-> IF fault = "none" THEN <<university>> ELSE <<>>,
          accounts |-> IF fault \in {"before_writes", "between_writes"}
                       THEN accounts
                       ELSE MapInsert(accounts, university.account_id, university),
          by_name |-> IF fault = "before_writes"
                      THEN by_name
                      ELSE add_university_by_name(by_name, university)]

\* Variant of add_university with the two require! checks in the other order.
add_university_UniqueFirst(accounts, by_name, signer, name, account_id, fault) ==
    IF ~AccountIsNew(accounts, account_id)
    THEN [status |-> "Account already exists", result |-> <<>>,
          accounts |-> accounts, by_name |-> by_name]
    ELSE IF ~PermissionOk(signer)
    THEN [status |-> "Permission denied", result |-> <<>>,
          accounts |-> accounts, by_name |-> by_name]
    ELSE LET university == University(name, account_id) IN
         [status |-> IF fault = "none" THEN "ok" ELSE "aborted",
          result |-> IF fault = "none" THEN <<university>> ELSE <<>>,
          accounts |-> MapInsert(accounts, university.account_id, university),
          by_name |-> add_university_by_name(by_name, university)]

\* pub fn add_university(&mut self, name, account_id) -> University
\* The outcome of running the body on the state (accounts, by_name): the
\* status, the returned value and the state the body has written when it
\* ends.  fault = "none" is a run the host lets finish; otherwise the host
\* aborts the run at that point of the body.
add_university(accounts, by_name, signer, name, account_id, fault) ==
    IF ~PermissionOk(signer)
    THEN [status |-> "Permission denied", result |-> <<>>,
          accounts |-> accounts, by_name |-> by_name]
    ELSE IF ~AccountIsNew(accounts, account_id)
    THEN [status |-> "Account already exists", result |-> <<>>,
          accounts |-> accounts, by_name |-> by_name]
    ELSE LET university == University(name, account_id)
             accounts1  == MapInsert(accounts, university.account_id, university)
             by_name1   == add_university_by_name(by_name, university)
         IN  CASE fault = "before_writes" ->
                    [status |-> "aborted", result |-> <<>>,
                     accounts |-> accounts, by_name |-> by_name]
               [] fault = "between_writes" ->
                    [status |-> "aborted", result |-> <<>>,
                     accounts |-> accounts1, by_name |-> by_name]
               [] fault = "after_writes" ->
                    [status |-> "aborted", result |-> <<>>,
                     accounts |-> accounts1, by_name |-> by_name1]
               [] OTHER ->
                    [status |-> "ok", result |-> <<university>>,
                     accounts |-> accounts1, by_name |-> by_name1]

\* Variants of the reads: an entry dropped, a default in place of None.
get_all_universities_DropLast(accounts) ==
    SubSeq(MapToVec(accounts), 1, Len(accounts) - 1)

get_university_by_account_id_Default(accounts, account_id) ==
    IF MapGet(accounts, account_id) = None
    THEN Some(University("", account_id))
    ELSE MapGet(accounts, account_id)

get_all_universities(accounts) == MapToVec(accounts)

get_universities_by_name(by_name, name) ==
    IF MapGet(by_name, name) = None THEN <<>> ELSE MapGet(by_name, name)[1]

get_university_by_account_id(accounts, account_id) == MapGet(accounts, account_id)

\* ------------------------------------------------------------------ host
\* A call that panics persists none of its writes.
Persist(pre, post, status) == IF status = "ok" THEN post ELSE pre

Call(op, signer, name, account_id, fault, status, result) ==
    [op |-> op, signer |-> signer, name |-> name, account_id |-> account_id,
     fault |-> fault, status |-> status, result |-> result, again |-> FALSE]

\* What a view call asks: the method and its argument.
Query(c) == [op |-> c.op, name |-> c.name, account_id |-> c.account_id]

Queries ==
    {[op |-> "get_all_universities", name |-> "", account_id |-> ""]}
    \cup {[op |-> "get_universities_by_name", name |-> n, account_id |-> ""] :
             n \in Names}
    \cup {[op |-> "get_university_by_account_id", name |-> "", account_id |-> a] :
             a \in AccountIds}

NothingSeen == [q \in Queries |-> None]

\* What an add_university call asks: the signer and the two arguments.
Request(signer, name, account_id) ==
    [signer |-> signer, name |-> name, account_id |-> account_id]

NothingFailed == None

\* A request and the error it was answered with.
Failure(signer, name, account_id, status) ==
    Some([request |-> Request(signer, name, account_id), status |-> status])

\* The request q is the one recorded in f.
FailedBefore(f, q) == f # None /\ f[1].request = q

Errors == {"Permission denied", "Account already exists"}

Init ==
    /\ universities_accounts = MapNew
    /\ universities_by_name = MapNew
    /\ history = <<>>
    /\ last = Call("new", "", "", "", "none", "ok", <<>>)
    /\ seen = NothingSeen
    /\ failed = NothingFailed
    /\ ncalls = 0

\* One add_university call, from dispatch to the host's commit or rollback.
AddUniversityCall(signer, name, account_id, fault) ==
    /\ ncalls < MaxCalls
    /\ LET out == add_university(universities_accounts, universities_by_name,
                                 signer, name, account_id, fault) IN
       /\ universities_accounts' =
              Persist(universities_accounts, out.accounts, out.status)
       /\ universities_by_name' =
              Persist(universities_by_name, out.by_name, out.status)
       /\ history' = IF out.status = "ok"
                     THEN Append(history, University(name, account_id))
                     ELSE history
       /\ seen' = IF out.status = "ok" THEN NothingSeen ELSE seen
       /\ failed' = IF out.status = "ok" THEN NothingFailed
                    ELSE IF out.status \in Errors
                    THEN Failure(signer, name, account_id, out.status)
                    ELSE failed
       /\ last' = [Call("add_university", signer, name, account_id, fault,
                        out.status, out.result)
                     EXCEPT !.again = FailedBefore(failed,
                                                   Request(signer, name, account_id))]
    /\ ncalls' = ncalls + 1

\* A call the host runs to its end: it returns or it panics in a require!.
AddUniversity(signer, name, account_id) ==
    AddUniversityCall(signer, name, account_id, "none")

\* A call the host aborts inside the body, after both checks have passed.
AddUniversityFault(signer, name, account_id, fault) ==
    /\ PermissionOk(signer)
    /\ AccountIsNew(universities_accounts, account_id)
    /\ AddUniversityCall(signer, name, account_id, fault)

\* A view call: it answers and writes nothing.
View(c) ==
    /\ ncalls < MaxCalls
    /\ last' = [c EXCEPT !.again = (seen[Query(c)] # None)]
    /\ seen' = [seen EXCEPT ![Query(c)] = Some(c.result)]
    /\ ncalls' = ncalls + 1
    /\ UNCHANGED <<universities_accounts, universities_by_name, history, failed>>

GetAllUniversities(signer) ==
    View(Call("get_all_universities", signer, "", "", "none", "ok",
              get_all_universities(universities_accounts)))

GetUniversitiesByName(signer, name) ==
    View(Call("get_universities_by_name", signer, name, "", "none", "ok",
              get_universities_by_name(universities_by_name, name)))

GetUniversityByAccountId(signer, account_id) ==
    View(Call("get_university_by_account_id", signer, "", account_id, "none", "ok",
              get_university_by_account_id(universities_accounts, account_id)))

Next ==
    \/ \E s \in Signers, n \in Names, a \in AccountIds : AddUniversity(s, n, a)
    \/ \E s \in Signers : GetAllUniversities(s)
    \/ \E s \in Signers, n \in Names : GetUniversitiesByName(s, n)
    \/ \E s \in Signers, a \in AccountIds : GetUniversityByAccountId(s, a)

Spec == Init /\ [][Next]_vars

\* The same program on a host that may abort a call inside the body.
NextFault ==
    \/ Next
    \/ \E s \in Signers, n \in Names, a \in AccountIds, f \in FaultPoints :
          AddUniversityFault(s, n, a, f)

SpecFault == Init /\ [][NextFault]_vars

\* The same program on a host without call-level atomicity: a call aborted
\* between the two writes leaves the first write in storage.
AddUniversityFaultNoRollback(signer, name, account_id) ==
    /\ ncalls < MaxCalls
    /\ PermissionOk(signer)
    /\ AccountIsNew(universities_accounts, account_id)
    /\ LET out == add_university(universities_accounts, universities_by_name,
                                 signer, name, account_id, "between_writes") IN
       /\ universities_accounts' = out.accounts
       /\ universities_by_name' = out.by_name
       /\ last' = Call("add_university", signer, name, account_id, "between_writes",
                       out.status, out.result)
    /\ seen' = NothingSeen
    /\ failed' = NothingFailed
    /\ ncalls' = ncalls + 1
    /\ UNCHANGED history

NextNoRollback ==
    \/ Next
    \/ \E s \in Signers, n \in Names, a \in AccountIds :
          AddUniversityFaultNoRollback(s, n, a)

SpecNoRollback == Init /\ [][NextNoRollback]_vars

TypeOK ==
    /\ ncalls \in 0..MaxCalls
    /\ \A i \in 1..Len(universities_accounts) :
          universities_accounts[i].key \in AccountIds
    /\ \A i \in 1..Len(universities_by_name) :
          universities_by_name[i].key \in Names

\* ======================================================================
\* Properties
\* ======================================================================
\* The step just taken is an add_university call / a view call.
AddStep == last'.op = "add_university" /\ ncalls' = ncalls + 1

ViewStep ==
    /\ ncalls' = ncalls + 1
    /\ last'.op \in {"get_all_universities", "get_universities_by_name",
                     "get_university_by_account_id"}

\* The Universities of the name index, sequence after sequence, and the
\* Universities of the primary index, in enumeration order.
RECURSIVE Concat(_)
Concat(m) == IF m = <<>> THEN <<>> ELSE Head(m).value \o Concat(Tail(m))

NameIndexRecords == Concat(universities_by_name)

PrimaryRecords ==
    [i \in 1..Len(universities_accounts) |-> universities_accounts[i].value]

Count(seq, r) == Cardinality({i \in 1..Len(seq) : seq[i] = r})

Universities == {University(n, a) : n \in Names, a \in AccountIds}

\* ---------------------------------------------------------------------
\* C1: an add_university(n, a) signed by the owner in a state where a is
\* not a key of universities_accounts returns University{n, a}, and right
\* after it get_university_by_account_id(a) = Some(University{n, a}).
C1_RegisterNew ==
    [][(/\ AddStep
        /\ last'.signer = CurrentAccountId
        /\ last'.account_id \notin MapKeys(universities_accounts))
       => (/\ last'.status = "ok"
           /\ last'.result = <<University(last'.name, last'.account_id)>>
           /\ get_university_by_account_id(universities_accounts', last'.account_id)
                = Some(University(last'.name, last'.account_id)))]_vars

C1_Witness ==
    /\ last.op = "add_university"
    /\ last.signer = CurrentAccountId
    /\ last.status = "ok"
    /\ last.result = <<University("UMA", "uni_id")>>
    /\ get_university_by_account_id(universities_accounts, "uni_id")
         = Some(University("UMA", "uni_id"))

\* ---------------------------------------------------------------------
\* C2: an add_university whose signer is not the owner fails with
\* "Permission denied" for every name and account_id and leaves both maps
\* as they were; hence every change of either map happens in a call signed
\* by the owner.
C2_NonOwnerRejected ==
    [][/\ (AddStep /\ last'.signer # CurrentAccountId)
            => (/\ last'.status = "Permission denied"
                /\ universities_accounts' = universities_accounts
                /\ universities_by_name' = universities_by_name)
       /\ (\/ universities_accounts' # universities_accounts
           \/ universities_by_name' # universities_by_name)
            => (AddStep /\ last'.signer = CurrentAccountId)]_vars

C2_Witness ==
    /\ last.op = "add_university"
    /\ last.signer # CurrentAccountId
    /\ last.status = "Permission denied"
    /\ last.account_id \notin MapKeys(universities_accounts)
    /\ Len(universities_accounts) >= 1

\* ---------------------------------------------------------------------
\* C3: an add_university(n, a) signed by the owner in a state where a is
\* already a key fails with "Account already exists" whatever n is; the
\* University stored for a is unchanged and no sequence of
\* universities_by_name gains an entry.
C3_DuplicateRejected ==
    [][(/\ AddStep
        /\ last'.signer = CurrentAccountId
        /\ last'.account_id \in MapKeys(universities_accounts))
       => (/\ last'.status = "Account already exists"
           /\ MapGet(universities_accounts', last'.account_id)
                = MapGet(universities_accounts, last'.account_id)
           /\ universities_by_name' = universities_by_name)]_vars

C3_Witness ==
    /\ last.op = "add_university"
    /\ last.status = "Account already exists"
    /\ MapGet(universities_accounts, last.account_id) # None
    /\ MapGet(universities_accounts, last.account_id)[1].name # last.name

\* ---------------------------------------------------------------------
\* C4: between calls, the multiset of Universities in the sequences of
\* universities_by_name equals the multiset of Universities stored in
\* universities_accounts.
C4_CrossIndex ==
    \A r \in Universities :
        Count(NameIndexRecords, r) = Count(PrimaryRecords, r)

C4_Witness ==
    /\ Len(universities_accounts) = 3
    /\ Len(universities_by_name) = 2
    /\ Len(NameIndexRecords) = 3

\* ---------------------------------------------------------------------
\* C5: for every name n, get_universities_by_name(n) is the sequence of
\* the successful registrations made with name n, in the order they
\* happened (so its length is their number).
RegisteredWithName(n) == SelectSeq(history, LAMBDA r : r.name = n)

C5_ByNameInOrder ==
    \A n \in Names :
        get_universities_by_name(universities_by_name, n) = RegisteredWithName(n)

C5_Witness ==
    /\ get_universities_by_name(universities_by_name, "UMA")
         = <<University("UMA", "uni_id"), University("UMA", "admin")>>
    /\ Len(get_universities_by_name(universities_by_name, "UPM")) = 1

\* ---------------------------------------------------------------------
\* C6: universities_accounts holds at most one University per account_id,
\* and an account_id that maps to a University maps to the same University
\* in every later state.
OneRecordPerAccount ==
    \A i, j \in 1..Len(universities_accounts) :
        universities_accounts[i].key = universities_accounts[j].key => i = j

C6_InsertOnly ==
    /\ []OneRecordPerAccount
    /\ [][\A a \in AccountIds :
            MapGet(universities_accounts, a) # None
              => MapGet(universities_accounts', a) = MapGet(universities_accounts, a)]_vars

C6_Witness ==
    /\ Len(universities_accounts) = 2
    /\ last.op = "add_university"
    /\ last.status # "ok"
    /\ last.account_id = universities_accounts[1].key
    /\ universities_accounts[1].value.name # last.name

\* ---------------------------------------------------------------------
\* C7: get_all_universities() holds exactly the (account_id, University)
\* pairs of the successful registrations so far, each account_id once.
Range(seq) == {seq[i] : i \in 1..Len(seq)}

C7_AllUniversities ==
    LET all == get_all_universities(universities_accounts) IN
    /\ Range(all) = {<<r.account_id, r>> : r \in Range(history)}
    /\ \A i, j \in 1..Len(all) : all[i][1] = all[j][1] => i = j
    /\ Len(all) = Len(history)

C7_Witness ==
    /\ last.op = "get_all_universities"
    /\ Len(last.result) = 2
    /\ Len(history) = 2
    /\ ncalls >= 4

\* ---------------------------------------------------------------------
\* C8: every add_university call is all or nothing, also when the host
\* aborts it between the two writes: after the call either both maps hold
\* the new University or both maps are what they were before the call; no
\* state between calls has a University in one map only.
InPrimaryOf(accounts, r) ==
    \E i \in 1..Len(accounts) : accounts[i] = [key |-> r.account_id, value |-> r]

InNameIndexOf(by_name, r) ==
    \E i \in 1..Len(by_name) :
        by_name[i].key = r.name /\ r \in Range(by_name[i].value)

InPrimary(r) == InPrimaryOf(universities_accounts, r)

InNameIndex(r) == InNameIndexOf(universities_by_name, r)

C8_AllOrNothing ==
    /\ [](\A r \in Universities : InPrimary(r) <=> InNameIndex(r))
    /\ [][AddStep =>
            LET r == University(last'.name, last'.account_id) IN
            \/ /\ last'.status = "ok"
               /\ InPrimaryOf(universities_accounts', r)
               /\ InNameIndexOf(universities_by_name', r)
               /\ ~InPrimary(r) /\ ~InNameIndex(r)
            \/ /\ last'.status # "ok"
               /\ universities_accounts' = universities_accounts
               /\ universities_by_name' = universities_by_name]_vars

C8_Witness ==
    /\ last.op = "add_university"
    /\ last.fault = "between_writes"
    /\ last.status = "aborted"
    /\ ~InPrimary(University(last.name, last.account_id))
    /\ Len(universities_accounts) >= 1

\* ---------------------------------------------------------------------
\* C9: every University held in universities_accounts or in
\* universities_by_name has a non-empty name and a non-empty account_id.
C9_NonEmptyFields ==
    \A r \in Range(PrimaryRecords) \cup Range(NameIndexRecords) :
        r.name # "" /\ r.account_id # ""

\* ---------------------------------------------------------------------
\* C10: the three reads never fail and never change either map; an absent
\* name reads as the empty sequence and an absent account_id as None; a
\* read repeated with no successful add_university in between gives the
\* answer it gave before.
C10_Reads ==
    [][ViewStep =>
         /\ last'.status = "ok"
         /\ universities_accounts' = universities_accounts
         /\ universities_by_name' = universities_by_name
         /\ (/\ last'.op = "get_universities_by_name"
             /\ last'.name \notin MapKeys(universities_by_name))
              => last'.result = <<>>
         /\ (/\ last'.op = "get_university_by_account_id"
             /\ last'.account_id \notin MapKeys(universities_accounts))
              => last'.result = None
         /\ seen[Query(last')] # None
              => last'.result = seen[Query(last')][1]]_vars

C10_Witness ==
    /\ last.op = "get_university_by_account_id"
    /\ last.again
    /\ last.account_id \notin MapKeys(universities_accounts)
    /\ last.result = None
    /\ Len(universities_accounts) >= 1

\* ---------------------------------------------------------------------
\* C11: add_university checks the signer before the account_id: a call by
\* a non-owner with an account_id that is already a key fails with
\* "Permission denied", never with "Account already exists".
C11_AuthBeforeUniqueness ==
    [][(/\ AddStep
        /\ last'.signer # CurrentAccountId
        /\ last'.account_id \in MapKeys(universities_accounts))
       => last'.status = "Permission denied"]_vars

C11_Witness ==
    /\ last.op = "add_university"
    /\ last.signer # CurrentAccountId
    /\ last.account_id \in MapKeys(universities_accounts)
    /\ last.status = "Permission denied"

\* ---------------------------------------------------------------------
\* C12: a successful add_university(n, a) changes two things only:
\* universities_accounts gains the key a, every other entry unchanged; the
\* sequence of n in universities_by_name becomes its previous value (empty
\* if n was absent) with University{n, a} appended at the end, every other
\* name's sequence unchanged.
C12_SuccessFrame ==
    [][(AddStep /\ last'.status = "ok") =>
         LET n == last'.name
             a == last'.account_id
         IN  /\ a \notin MapKeys(universities_accounts)
             /\ MapKeys(universities_accounts') = MapKeys(universities_accounts) \cup {a}
             /\ Len(universities_accounts') = Len(universities_accounts) + 1
             /\ MapGet(universities_accounts', a) = Some(University(n, a))
             /\ \A b \in AccountIds \ {a} :
                   MapGet(universities_accounts', b) = MapGet(universities_accounts, b)
             /\ MapKeys(universities_by_name') = MapKeys(universities_by_name) \cup {n}
             /\ get_universities_by_name(universities_by_name', n)
                  = Append(get_universities_by_name(universities_by_name, n),
                           University(n, a))
             /\ \A m \in Names \ {n} :
                   MapGet(universities_by_name', m) = MapGet(universities_by_name, m)]_vars

C12_Witness ==
    /\ last.op = "add_university"
    /\ last.status = "ok"
    /\ Len(universities_accounts) = 3
    /\ Len(universities_by_name) = 2
    /\ Len(get_universities_by_name(universities_by_name, last.name)) = 2

\* ---------------------------------------------------------------------
\* C13: on a host that keeps the writes of an aborted call, an abort
\* between the two writes leaves the University in universities_accounts
\* and not in universities_by_name (C13_Witness, where the cross-index
\* equality fails); universities_accounts being written first, no state has
\* a University in universities_by_name that is not in universities_accounts.
C13_NeverNameOnly ==
    \A r \in Universities : InNameIndex(r) => InPrimary(r)

C13_Witness ==
    /\ last.op = "add_university"
    /\ last.fault = "between_writes"
    /\ last.status = "aborted"
    /\ InPrimary(University(last.name, last.account_id))
    /\ ~InNameIndex(University(last.name, last.account_id))
    /\ ~C4_CrossIndex

\* ---------------------------------------------------------------------
\* C14: an add_university that failed, issued again with the same signer
\* and arguments and no successful add_university in between, fails with
\* the same error; an owner call that succeeded, issued again unchanged,
\* fails with "Account already exists".
C14_FailureRepeats ==
    [][AddStep =>
         LET q == Request(last'.signer, last'.name, last'.account_id) IN
         /\ FailedBefore(failed, q) => last'.status = failed[1].status
         /\ (/\ last'.signer = CurrentAccountId
             /\ University(last'.name, last'.account_id) \in Range(history))
              => last'.status = "Account already exists"]_vars

C14_Witness ==
    /\ last.op = "add_university"
    /\ last.again
    /\ last.signer = CurrentAccountId
    /\ last.status = "Account already exists"
    /\ University(last.name, last.account_id) \in Range(history)

\* ---------------------------------------------------------------------
\* C15: keys agree with what they index: the University stored under key k
\* of universities_accounts has account_id k, every University in the
\* sequence stored under name n of universities_by_name has name n, and an
\* account_id occurs at most once over all sequences of universities_by_name.
C15_KeysAgree ==
    /\ \A i \in 1..Len(universities_accounts) :
          universities_accounts[i].value.account_id = universities_accounts[i].key
    /\ \A i \in 1..Len(universities_by_name) :
          \A r \in Range(universities_by_name[i].value) :
              r.name = universities_by_name[i].key
    /\ \A i, j \in 1..Len(NameIndexRecords) :
          NameIndexRecords[i].account_id = NameIndexRecords[j].account_id => i = j

C15_Witness ==
    /\ Len(universities_accounts) = 3
    /\ Len(universities_by_name) = 2
    /\ Len(NameIndexRecords) = 3
    /\ last.op = "add_university"
    /\ last.status = "Account already exists"

\* ---------------------------------------------------------------------
\* C16: universities_by_name never stores an empty sequence: a name is a
\* key exactly when a successful registration used it, so
\* get_universities_by_name(n) is empty exactly when n is not a key.
C16_NoEmptySequence ==
    /\ \A i \in 1..Len(universities_by_name) : universities_by_name[i].value # <<>>
    /\ \A n \in Names :
          /\ n \in MapKeys(universities_by_name) <=> (\E r \in Range(history) : r.name = n)
          /\ get_universities_by_name(universities_by_name, n) = <<>>
               <=> n \notin MapKeys(universities_by_name)

C16_Witness ==
    /\ MapKeys(universities_by_name) = {"", "UMA"}
    /\ last.op = "get_universities_by_name"
    /\ last.name = "UPM"
    /\ last.result = <<>>

====
